---- MODULE Spec2Model ----
(***************************************************************************)
(* Model of binexp_parser.py: the BinOpAst binary-operator AST, built from *)
(* a list of prefix-notation tokens, simplified in place by the additive   *)
(* and the multiplicative identity rules, and written back as a prefix     *)
(* string.  Python objects live in a heap (a sequence of records indexed   *)
(* by object id), so that attribute re-binding, aliasing between nodes and *)
(* the AttributeError raised by an attribute access on False or on an      *)
(* object whose __init__ set nothing are all visible.                      *)
(***************************************************************************)
EXTENDS Integers, Sequences, FiniteSets, TLC

VARIABLES input_list, in_line, heap, AST, prefix, pc, nsimp, exc, raised_in

vars == <<input_list, in_line, heap, AST, prefix, pc, nsimp, exc, raised_in>>

(* ---- bounds ---------------------------------------------------------- *)

\* largest number of operator tokens in a line grown from numerals
MaxOps == 2
\* largest number of simplify_binops calls made on one tree
MaxSimplify == 2
\* largest number of operator tokens in a line that a truncated line is cut from
MaxCutOps == 2

(* ---- tokens ---------------------------------------------------------- *)

Numerals == {"0", "1", "3"}
Operators == {"+", "*"}

\* str.isnumeric() on the tokens of the alphabet
isnumeric(s) == s \in Numerals

\* int(s) on a numeric token
int(s) == CASE s = "0" -> 0 [] s = "1" -> 1 [] s = "3" -> 3

(* ---- objects --------------------------------------------------------- *)

\* the Python constant False stored in left/right of a number node
False == 0
\* the value of a local variable that holds no string (yet)
None == "None"

number == "number"
operator == "operator"

\* a BinOpAst object whose __init__ found the list empty: no attribute set
NoAttrs == [val |-> "", type |-> "", left |-> False, right |-> False]

\* ref.<attribute> succeeds: ref is an object (not False) that has attributes
HasAttrs(h, ref) == ref # False /\ h[ref] # NoAttrs

(* ---- BinOpAst.__init__ ----------------------------------------------- *)

\* variant: the right operand is built from the list before the left one
RECURSIVE BinOpAst_right_first(_, _)
BinOpAst_right_first(prefix_list, h) ==
    LET self == Len(h) + 1
        h0 == Append(h, NoAttrs)
    IN IF prefix_list = <<>>
       THEN [heap |-> h0, prefix_list |-> prefix_list, self |-> self]
       ELSE LET val == Head(prefix_list)
                rest == Tail(prefix_list)
            IN IF isnumeric(val)
               THEN [heap |-> [h0 EXCEPT ![self] =
                                 [val |-> val, type |-> number,
                                  left |-> False, right |-> False]],
                     prefix_list |-> rest, self |-> self]
               ELSE LET r == BinOpAst_right_first(rest, h0)
                        l == BinOpAst_right_first(r.prefix_list, r.heap)
                    IN [heap |-> [l.heap EXCEPT ![self] =
                                    [val |-> val, type |-> operator,
                                     left |-> l.self, right |-> r.self]],
                        prefix_list |-> l.prefix_list, self |-> self]

RECURSIVE BinOpAst(_, _)
BinOpAst(prefix_list, h) ==
    LET self == Len(h) + 1
        h0 == Append(h, NoAttrs)
    IN IF prefix_list = <<>>
       THEN [heap |-> h0, prefix_list |-> prefix_list, self |-> self]
       ELSE LET val == Head(prefix_list)
                rest == Tail(prefix_list)
            IN IF isnumeric(val)
               THEN [heap |-> [h0 EXCEPT ![self] =
                                 [val |-> val, type |-> number,
                                  left |-> False, right |-> False]],
                     prefix_list |-> rest, self |-> self]
               ELSE LET l == BinOpAst(rest, h0)
                        r == BinOpAst(l.prefix_list, l.heap)
                    IN [heap |-> [r.heap EXCEPT ![self] =
                                    [val |-> val, type |-> operator,
                                     left |-> l.self, right |-> r.self]],
                        prefix_list |-> r.prefix_list, self |-> self]

(* ---- BinOpAst.prefix_str --------------------------------------------- *)

RECURSIVE prefix_str(_, _)
prefix_str(h, self) ==
    IF ~HasAttrs(h, self)
    THEN [raised |-> TRUE, str |-> None]
    ELSE IF h[self].type = number
    THEN [raised |-> FALSE, str |-> h[self].val]
    ELSE LET l == prefix_str(h, h[self].left)
         IN IF l.raised THEN l
            ELSE LET r == prefix_str(h, h[self].right)
                 IN IF r.raised THEN r
                    ELSE [raised |-> FALSE,
                          str |-> h[self].val \o " " \o l.str \o " " \o r.str]

(* ---- the identity rules ---------------------------------------------- *)

\* self takes over val, type, left, right of its right child
\* (lines 65-73 and 95-103)
take_right(h, self) ==
    LET r == h[self].right
    IN IF ~HasAttrs(h, r) THEN [heap |-> h, raised |-> TRUE]
       ELSE LET h1 == [h EXCEPT ![self].val = h[r].val]
                h2 == [h1 EXCEPT ![self].type = h1[h1[self].right].type]
            IN IF h2[h2[self].right].type = operator
               THEN LET h3 == [h2 EXCEPT ![self].left = h2[h2[self].right].left]
                        h4 == [h3 EXCEPT ![self].right = h3[h3[self].right].right]
                    IN [heap |-> h4, raised |-> FALSE]
               ELSE [heap |-> [h2 EXCEPT ![self].left = False,
                                         ![self].right = False],
                     raised |-> FALSE]

\* self takes over val and type of its left child, then left of the left
\* child, then right of what self.left is by then (lines 77-85 and 106-114)
take_left(h, self) ==
    LET h1 == [h EXCEPT ![self].val = h[h[self].left].val]
        h2 == [h1 EXCEPT ![self].type = h1[h1[self].left].type]
    IN IF h2[h2[self].left].type = operator
       THEN LET h3 == [h2 EXCEPT ![self].left = h2[h2[self].left].left]
            IN IF ~HasAttrs(h3, h3[self].left)
               THEN [heap |-> h3, raised |-> TRUE]
               ELSE [heap |-> [h3 EXCEPT ![self].right = h3[h3[self].left].right],
                     raised |-> FALSE]
       ELSE [heap |-> [h2 EXCEPT ![self].left = False, ![self].right = False],
             raised |-> FALSE]

\* the body shared by additive_identity (op "+", k 0) and
\* multiplicative_identity (op "*", k 1)
identity_rule(h, self, op, k) ==
    IF h[self].val = op
    THEN IF ~HasAttrs(h, h[self].left)
         THEN [heap |-> h, raised |-> TRUE]
         ELSE IF isnumeric(h[h[self].left].val) /\ int(h[h[self].left].val) = k
         THEN take_right(h, self)
         ELSE IF ~HasAttrs(h, h[self].right)
         THEN [heap |-> h, raised |-> TRUE]
         ELSE IF isnumeric(h[h[self].right].val) /\ int(h[h[self].right].val) = k
         THEN take_left(h, self)
         ELSE [heap |-> h, raised |-> FALSE]
    ELSE [heap |-> h, raised |-> FALSE]

additive_identity(h, self) == identity_rule(h, self, "+", 0)

multiplicative_identity(h, self) == identity_rule(h, self, "*", 1)

\* BinOpAst.mult_by_zero: defined by the class, its call in simplify_binops
\* is commented out
mult_by_zero(h, self) ==
    IF h[self].val = "*"
    THEN IF ~HasAttrs(h, h[self].left)
         THEN [heap |-> h, raised |-> TRUE]
         ELSE IF isnumeric(h[h[self].left].val) /\ int(h[h[self].left].val) = 0
         THEN [heap |-> [h EXCEPT ![self] = [val |-> "0", type |-> number,
                                             left |-> False, right |-> False]],
               raised |-> FALSE]
         ELSE IF ~HasAttrs(h, h[self].right)
         THEN [heap |-> h, raised |-> TRUE]
         ELSE IF isnumeric(h[h[self].right].val) /\ int(h[h[self].right].val) = 0
         THEN [heap |-> [h EXCEPT ![self] = [val |-> "0", type |-> number,
                                             left |-> False, right |-> False]],
               raised |-> FALSE]
         ELSE [heap |-> h, raised |-> FALSE]
    ELSE [heap |-> h, raised |-> FALSE]

(* ---- BinOpAst.simplify_binops ---------------------------------------- *)

\* variant: the call of mult_by_zero is not commented out
RECURSIVE simplify_binops_mult_by_zero(_, _)
simplify_binops_mult_by_zero(h, self) ==
    IF ~HasAttrs(h, self) \/ ~HasAttrs(h, h[self].left)
    THEN [heap |-> h, raised |-> TRUE]
    ELSE LET s1 == IF h[h[self].left].type = operator
                   THEN simplify_binops_mult_by_zero(h, h[self].left)
                   ELSE [heap |-> h, raised |-> FALSE]
         IN IF s1.raised THEN s1
            ELSE IF ~HasAttrs(s1.heap, s1.heap[self].right)
            THEN [heap |-> s1.heap, raised |-> TRUE]
            ELSE LET s2 == IF s1.heap[s1.heap[self].right].type = operator
                           THEN simplify_binops_mult_by_zero(s1.heap, s1.heap[self].right)
                           ELSE s1
                 IN IF s2.raised THEN s2
                    ELSE LET s3 == additive_identity(s2.heap, self)
                         IN IF s3.raised THEN s3
                            ELSE LET s4 == multiplicative_identity(s3.heap, self)
                                 IN IF s4.raised THEN s4
                                    ELSE mult_by_zero(s4.heap, self)

RECURSIVE simplify_binops(_, _)
simplify_binops(h, self) ==
    IF ~HasAttrs(h, self) \/ ~HasAttrs(h, h[self].left)
    THEN [heap |-> h, raised |-> TRUE]
    ELSE LET s1 == IF h[h[self].left].type = operator
                   THEN simplify_binops(h, h[self].left)
                   ELSE [heap |-> h, raised |-> FALSE]
         IN IF s1.raised THEN s1
            ELSE IF ~HasAttrs(s1.heap, s1.heap[self].right)
            THEN [heap |-> s1.heap, raised |-> TRUE]
            ELSE LET s2 == IF s1.heap[s1.heap[self].right].type = operator
                           THEN simplify_binops(s1.heap, s1.heap[self].right)
                           ELSE s1
                 IN IF s2.raised THEN s2
                    ELSE LET s3 == additive_identity(s2.heap, self)
                         IN IF s3.raised THEN s3
                            ELSE multiplicative_identity(s3.heap, self)

(* ---- the input lines ------------------------------------------------- *)

\* operands still expected after the tokens ts, when need were expected before
\* them; -1 once a token arrives with no operand expected
RECURSIVE Expected(_, _)
Expected(ts, need) ==
    IF ts = <<>> THEN need
    ELSE IF need <= 0 THEN -1
    ELSE Expected(Tail(ts), IF isnumeric(Head(ts)) THEN need - 1 ELSE need + 1)

\* ts is a well-formed prefix expression
IsWellFormed(ts) == Expected(ts, 1) = 0

\* ts runs out while an operand is still expected
IsExhausted(ts) == Expected(ts, 1) > 0

NumOps(ts) == Cardinality({i \in 1 .. Len(ts) : ~isnumeric(ts[i])})

(* ---- Test_BinOps.generic_test, one line ------------------------------ *)

Init ==
    /\ in_line \in {<<v>> : v \in Numerals}
    /\ input_list = <<>>
    /\ heap = <<>>
    /\ AST = False
    /\ prefix = None
    /\ pc = "line"
    /\ nsimp = 0
    /\ exc = "none"
    /\ raised_in = "none"

\* the fixture's line is any well-formed expression: a numeral of a
\* well-formed line is replaced by an operator applied to two numerals
Grow ==
    /\ pc = "line"
    /\ IsWellFormed(in_line)
    /\ NumOps(in_line) < MaxOps
    /\ \E i \in 1 .. Len(in_line), o \in Operators, a \in Numerals, b \in Numerals :
          /\ isnumeric(in_line[i])
          /\ in_line' = SubSeq(in_line, 1, i - 1) \o <<o, a, b>>
                           \o SubSeq(in_line, i + 1, Len(in_line))
    /\ UNCHANGED <<input_list, heap, AST, prefix, pc, nsimp, exc, raised_in>>

\* the lines of the arith_id and mult_id fixtures: a well-formed line with
\* the identity literal of "+" or of "*" put to its left or to its right,
\* up to twice on top of the largest lines, as in (x + 0) + 0
Wrap ==
    /\ pc = "line"
    /\ IsWellFormed(in_line)
    /\ NumOps(in_line) <= MaxOps + 1
    /\ in_line' \in {<<"+", "0">> \o in_line, <<"+">> \o in_line \o <<"0">>,
                     <<"*", "1">> \o in_line, <<"*">> \o in_line \o <<"1">>}
    /\ UNCHANGED <<input_list, heap, AST, prefix, pc, nsimp, exc, raised_in>>

\* or a well-formed line cut short
Truncate ==
    /\ pc = "line"
    /\ IsWellFormed(in_line)
    /\ NumOps(in_line) <= MaxCutOps
    /\ \E k \in 0 .. (Len(in_line) - 1) : in_line' = SubSeq(in_line, 1, k)
    /\ UNCHANGED <<input_list, heap, AST, prefix, pc, nsimp, exc, raised_in>>

\* input_list = in_line.strip().split(" "); AST = BinOpAst(input_list)
Build ==
    /\ pc = "line"
    /\ LET b == BinOpAst(in_line, heap)
       IN /\ heap' = b.heap
          /\ input_list' = b.prefix_list
          /\ AST' = b.self
    /\ pc' = "built"
    /\ UNCHANGED <<in_line, prefix, nsimp, exc, raised_in>>

\* AST.simplify_binops()
Simplify ==
    /\ pc \in {"built", "simplified"}
    /\ nsimp < MaxSimplify
    /\ LET s == simplify_binops(heap, AST)
       IN /\ heap' = s.heap
          /\ IF s.raised
             THEN /\ pc' = "raised"
                  /\ exc' = "AttributeError"
                  /\ raised_in' = "simplify_binops"
                  /\ nsimp' = nsimp
             ELSE /\ pc' = "simplified"
                  /\ UNCHANGED <<exc, raised_in>>
                  /\ nsimp' = nsimp + 1
    /\ UNCHANGED <<input_list, in_line, AST, prefix>>

\* prefix = AST.prefix_str()
Serialize ==
    /\ pc \in {"built", "simplified"}
    /\ LET p == prefix_str(heap, AST)
       IN IF p.raised
          THEN /\ pc' = "raised"
               /\ exc' = "AttributeError"
               /\ raised_in' = "prefix_str"
               /\ prefix' = prefix
          ELSE /\ pc' = "serialized"
               /\ UNCHANGED <<exc, raised_in>>
               /\ prefix' = p.str
    /\ UNCHANGED <<input_list, in_line, heap, AST, nsimp>>

Next == Grow \/ Wrap \/ Truncate \/ Build \/ Simplify \/ Serialize

Spec == Init /\ [][Next]_vars

(* ---- the whole pipeline as a function of the line -------------------- *)

\* n calls of simplify_binops on the tree at root; stops at the first raise
RECURSIVE simplify_times(_, _, _)
simplify_times(h, root, n) ==
    IF n = 0 THEN [heap |-> h, raised |-> FALSE]
    ELSE LET s == simplify_binops(h, root)
         IN IF s.raised THEN s ELSE simplify_times(s.heap, root, n - 1)

\* generic_test on the line ts with n calls of simplify_binops: what was
\* raised and where, or the string prefix_str returned
Run(ts, n) ==
    LET b == BinOpAst(ts, <<>>)
        s == simplify_times(b.heap, b.self, n)
    IN IF s.raised
       THEN [raised |-> "simplify_binops", str |-> None]
       ELSE LET p == prefix_str(s.heap, b.self)
            IN IF p.raised
               THEN [raised |-> "prefix_str", str |-> None]
               ELSE [raised |-> "none", str |-> p.str]

(* ---- vocabulary of the properties ------------------------------------ *)

\* the tokens of ts joined by single spaces
RECURSIVE Join(_)
Join(ts) ==
    IF ts = <<>> THEN ""
    ELSE IF Len(ts) = 1 THEN ts[1]
    ELSE ts[1] \o " " \o Join(Tail(ts))

\* what simplifying and serializing the expression x alone gives; a number
\* literal stands for itself
Alone(x) ==
    IF Len(x) = 1 THEN [raised |-> "none", str |-> x[1]] ELSE Run(x, 1)

\* the line is + 0 x, + x 0, * 1 x, * x 1 for a well-formed x
IsLeftAdd(ts) ==
    Len(ts) >= 3 /\ ts[1] = "+" /\ ts[2] = "0" /\ IsWellFormed(SubSeq(ts, 3, Len(ts)))
IsRightAdd(ts) ==
    Len(ts) >= 3 /\ ts[1] = "+" /\ ts[Len(ts)] = "0"
    /\ IsWellFormed(SubSeq(ts, 2, Len(ts) - 1))
IsLeftMul(ts) ==
    Len(ts) >= 3 /\ ts[1] = "*" /\ ts[2] = "1" /\ IsWellFormed(SubSeq(ts, 3, Len(ts)))
IsRightMul(ts) ==
    Len(ts) >= 3 /\ ts[1] = "*" /\ ts[Len(ts)] = "1"
    /\ IsWellFormed(SubSeq(ts, 2, Len(ts) - 1))

\* the first simplify_binops call raised, or prefix_str raised after it
FirstPassRaised ==
    /\ pc = "raised"
    /\ \/ nsimp = 0 /\ raised_in = "simplify_binops"
       \/ nsimp = 1 /\ raised_in = "prefix_str"

\* the line was simplified once and serialized
FirstPassDone == pc = "serialized" /\ nsimp = 1

\* the test of the line x-with-identity gives what x alone gives, whenever
\* x alone gives a string
SameAsAlone(x) ==
    Alone(x).raised = "none" =>
        /\ ~FirstPassRaised
        /\ FirstPassDone => prefix = Alone(x).str

\* the nodes reachable from n
RECURSIVE Reach(_, _)
Reach(h, n) ==
    IF n = False THEN {}
    ELSE IF h[n] = NoAttrs THEN {n}
    ELSE {n} \cup Reach(h, h[n].left) \cup Reach(h, h[n].right)

\* the nodes met walking down from n, one entry per path
RECURSIVE Walk(_, _)
Walk(h, n) ==
    IF n = False THEN <<>>
    ELSE IF h[n] = NoAttrs THEN <<n>>
    ELSE <<n>> \o Walk(h, h[n].left) \o Walk(h, h[n].right)

\* n is a Number without children or an Operator with two present children
NodeShapeOk(h, n) ==
    \/ h[n].type = number /\ h[n].left = False /\ h[n].right = False
    \/ h[n].type = operator /\ HasAttrs(h, h[n].left) /\ HasAttrs(h, h[n].right)

\* c is a number node whose value is the integer k
IsLiteral(h, c, k) == HasAttrs(h, c) /\ isnumeric(h[c].val) /\ int(h[c].val) = k

\* n is a "+" with a literal 0 child or a "*" with a literal 1 child
IsRedex(h, n) ==
    /\ HasAttrs(h, n)
    /\ h[n].type = operator
    /\ \/ h[n].val = "+" /\ (IsLiteral(h, h[n].left, 0) \/ IsLiteral(h, h[n].right, 0))
       \/ h[n].val = "*" /\ (IsLiteral(h, h[n].left, 1) \/ IsLiteral(h, h[n].right, 1))

HasRedex(h, root) == \E n \in Reach(h, root) : IsRedex(h, n)

\* the tree of the line as built, before any simplification
Built(ts) == BinOpAst(ts, <<>>)

(* ---- properties ------------------------------------------------------ *)

\* C1: right-hand additive identity: the line + x 0, simplified once and
\* serialized, gives the string that x alone gives (x itself for a literal).
C1_RightAdditiveIdentity ==
    IsRightAdd(in_line) => SameAsAlone(SubSeq(in_line, 2, Len(in_line) - 1))

\* C2: left-hand additive identity: the line + 0 x, simplified once and
\* serialized, gives the string that x alone gives (x itself for a literal).
C2_LeftAdditiveIdentity ==
    IsLeftAdd(in_line) => SameAsAlone(SubSeq(in_line, 3, Len(in_line)))

\* C3: multiplicative identity on both sides: the lines * 1 x and * x 1,
\* simplified once and serialized, give the string that x alone gives.
C3_MultiplicativeIdentity ==
    /\ IsLeftMul(in_line) => SameAsAlone(SubSeq(in_line, 3, Len(in_line)))
    /\ IsRightMul(in_line) => SameAsAlone(SubSeq(in_line, 2, Len(in_line) - 1))

\* C4: idempotence: on a well-formed line, a simplify call made after the
\* first one completes, and the serialization is the one after the first call.
C4_Idempotent ==
    (IsWellFormed(in_line) /\ nsimp >= 1) =>
        /\ ~(pc = "raised" /\ raised_in = "simplify_binops")
        /\ (pc = "serialized" /\ Run(in_line, 1).raised = "none")
              => prefix = Run(in_line, 1).str

\* C5: on a well-formed line (a single number included) simplify completes
\* without raising and prefix_str of the result returns a string.
C5_SimplifyNeverFails ==
    IsWellFormed(in_line) => ~FirstPassRaised

\* C6: a line that is empty or runs out while an operand is expected makes
\* construction fail with MalformedExpression instead of returning a tree.
C6_RejectsExhausted ==
    (IsExhausted(in_line) /\ pc # "line") =>
        (pc = "raised" /\ exc = "MalformedExpression" /\ AST = False)

\* C7: round trip: prefix_str of the tree built from a well-formed line is
\* the line's tokens joined by single spaces, and building leaves the token
\* list empty.
C7_RoundTrip ==
    (IsWellFormed(in_line) /\ pc # "line") =>
        /\ input_list = <<>>
        /\ ~(pc = "raised" /\ nsimp = 0 /\ raised_in = "prefix_str")
        /\ (pc = "serialized" /\ nsimp = 0) => prefix = Join(in_line)

C7_Witness ==
    /\ in_line = <<"+", "*", "1", "3", "0">>
    /\ pc = "serialized"
    /\ nsimp = 0
    /\ prefix = "+ * 1 3 0"
    /\ input_list = <<>>

C9_StructurePreserved ==
    (IsWellFormed(in_line) /\ pc = "simplified") =>
        /\ \A n \in Reach(heap, AST) : NodeShapeOk(heap, n)
        /\ Len(Walk(heap, AST)) = Cardinality(Reach(heap, AST))

\* C10: after one simplify call on an operator-rooted well-formed line the
\* tree holds no "+" over a literal 0 and no "*" over a literal 1.
C10_NormalFormInOneCall ==
    (IsWellFormed(in_line) /\ Len(in_line) >= 3 /\ pc = "simplified" /\ nsimp = 1) =>
        ~HasRedex(heap, AST)

====
